---- MODULE Spec2Model ----
(***************************************************************************)
(* A model of handler.py: the scheduled job that queries the billing API   *)
(* for monthly and daily per-account costs, aggregates them into cost      *)
(* series, renders two fixed-width tables and posts them to a webhook.     *)
(*                                                                         *)
(* Conventions of the model                                                *)
(*  - Python strings are TLA+ strings; a text made of several lines (a     *)
(*    report buffer, the text of a post) is the sequence of its lines,     *)
(*    each without its terminating "\n".                                   *)
(*  - A float cost is the integer number of cents it stands for: float()   *)
(*    is ParseAmount, the format specs ",.2f" and ".2f" are Fmt2f.  Inputs *)
(*    carry at most two decimals and are non-negative.                     *)
(*  - A dict is the sequence of its items [k, v] in insertion order.       *)
(*  - None is the empty tuple; an environment variable that is not set is  *)
(*    the empty string (the code tests both for truth only).               *)
(***************************************************************************)
EXTENDS Integers, Sequences, FiniteSets, TLC

VARIABLES
    pc,                          \* position of the invocation in lambda_handler
    error,                       \* the exception that ended the invocation, or "none"
    monthly_cost_and_usage_data, \* response of the MONTHLY query, or None
    daily_cost_and_usage_data,   \* response of the DAILY query, or None
    cost_per_month_dict,
    cost_per_day_dict,
    personal_buffer,
    other_buffer,
    callout_users,
    slack_hook_url,              \* os.environ.get('SLACK_WEBHOOK_URL'), once read
    weekday,                     \* datetime.now().isoweekday(), once read (0 before)
    posts,                       \* the requests.post calls that returned, in order
    warnings,                    \* the messages given to logger.warning, in order
    datapoints,                  \* argument of sparkline
    line                         \* result of sparkline (empty before the call)

vars == <<pc, error, monthly_cost_and_usage_data, daily_cost_and_usage_data,
          cost_per_month_dict, cost_per_day_dict, personal_buffer, other_buffer,
          callout_users, slack_hook_url, weekday, posts, warnings, datapoints, line>>

None == <<>>

(***************************************************************************)
(* Bounds of the model.                                                    *)
(***************************************************************************)
MaxFlowMonths == 1    \* buckets of a monthly response (publishing runs)
MaxReportMonths == 2  \* buckets of a monthly response (rendering runs)
MaxReportDays == 1    \* buckets of a daily response (publishing and rendering runs)
MaxMonths == 3        \* buckets of a monthly response (aggregation runs)
MaxDays == 2          \* buckets of a daily response (aggregation runs)
MaxLen == 3           \* length of a sparkline input
MaxDp == 3            \* largest datapoint of a sparkline input

(***************************************************************************)
(* Strings.                                                                *)
(***************************************************************************)
Max(a, b) == IF a >= b THEN a ELSE b

Min(a, b) == IF a <= b THEN a ELSE b

RECURSIVE Spaces(_)
Spaces(n) == IF n <= 0 THEN "" ELSE " " \o Spaces(n - 1)

\* format spec "<w" (the default for strings): pad on the right, never truncate
LJust(s, w) == s \o Spaces(w - Len(s))

\* format spec ">w": pad on the left, never truncate
RJust(s, w) == Spaces(w - Len(s)) \o s

\* format spec "^w": the left padding is the smaller half
Center(s, w) ==
    LET pad == Max(w - Len(s), 0)
    IN  Spaces(pad \div 2) \o s \o Spaces(pad - pad \div 2)

\* Python's  sub in s
Contains(sub, s) ==
    \E i \in 1..(Len(s) - Len(sub) + 1) : SubSeq(s, i, i + Len(sub) - 1) = sub

\* Python's  s[start:-1]  for start >= 0
SliceToLast(s, start) == SubSeq(s, Min(start, Len(s)) + 1, Len(s) - 1)

Digit(d) == SubSeq("0123456789", d + 1, d + 1)

DigitVal(c) == CHOOSE d \in 0..9 : Digit(d) = c

RECURSIVE IntStr(_)
IntStr(n) == IF n < 10 THEN Digit(n) ELSE IntStr(n \div 10) \o Digit(n % 10)

RECURSIVE StrInt(_)
StrInt(s) ==
    IF Len(s) = 0 THEN 0
    ELSE 10 * StrInt(SubSeq(s, 1, Len(s) - 1)) + DigitVal(SubSeq(s, Len(s), Len(s)))

\* the "," option of a format spec: thousands separators
RECURSIVE Grouped(_)
Grouped(n) ==
    IF n < 1000 THEN IntStr(n)
    ELSE Grouped(n \div 1000) \o "," \o Digit((n % 1000) \div 100)
             \o Digit((n % 100) \div 10) \o Digit(n % 10)

\* float(s) for a decimal literal with at most two decimals, in cents
ParseAmount(s) ==
    LET dots == {i \in 1..Len(s) : SubSeq(s, i, i) = "."}
        dot == IF dots = {} THEN Len(s) + 1 ELSE CHOOSE i \in dots : TRUE
        frac == SubSeq(s, dot + 1, Len(s))
    IN  100 * StrInt(SubSeq(s, 1, dot - 1))
          + (IF Len(frac) = 0 THEN 0
             ELSE IF Len(frac) = 1 THEN 10 * StrInt(frac)
             ELSE StrInt(frac))

\* the format specs ",.2f" (grouping) and ".2f" applied to a cost in cents
Fmt2f(c, grouping) ==
    (IF grouping THEN Grouped(c \div 100) ELSE IntStr(c \div 100))
        \o "." \o Digit((c % 100) \div 10) \o Digit(c % 10)

\* an int literal of the source, as a cost in cents
Dollars(n) == n * 100

(***************************************************************************)
(* sparkline.                                                              *)
(***************************************************************************)
\* code points of the seven glyphs
sparks == <<"U+2581", "U+2582", "U+2583", "U+2584", "U+2585", "U+2586", "U+2587">>

SeqMax(s) == CHOOSE m \in {s[i] : i \in 1..Len(s)} : \A i \in 1..Len(s) : s[i] <= m

\* round(num / den) for num >= 0, den > 0: to nearest, ties to even
RoundHalfEven(num, den) ==
    LET q == num \div den
        r == num % den
    IN  IF 2 * r < den THEN q
        ELSE IF 2 * r > den THEN q + 1
        ELSE IF q % 2 = 0 THEN q ELSE q + 1

\* round(scaled * n_sparks), scaled = 1 if upper == 0 else dp/upper
which_spark(dp, upper) ==
    LET n_sparks == Len(sparks) - 1
    IN  IF upper = 0 THEN RoundHalfEven(1 * n_sparks, 1)
        ELSE RoundHalfEven(dp * n_sparks, upper)

sparkline(dps) ==
    LET upper == SeqMax(dps)
    IN  [i \in 1..Len(dps) |-> sparks[which_spark(dps[i], upper) + 1]]

(***************************************************************************)
(* Dicts: the sequence of the items [k, v] in insertion order.             *)
(***************************************************************************)
DictKeys(d) == {d[i].k : i \in 1..Len(d)}

\* d[key] of a present key
DictGet(d, key) == d[CHOOSE i \in 1..Len(d) : d[i].k = key].v

\* d[key].append(x) on a defaultdict(list)
DictAppend(d, key, x) ==
    IF key \in DictKeys(d)
    THEN [i \in 1..Len(d) |->
             IF d[i].k = key THEN [k |-> key, v |-> Append(d[i].v, x)] ELSE d[i]]
    ELSE Append(d, [k |-> key, v |-> <<x>>])

(***************************************************************************)
(* The billing API's responses.  A response is                             *)
(*   [ResultsByTime |-> buckets in chronological order, each               *)
(*                      [Groups |-> <<[Keys |-> <<id>>, Amount |-> str]>>],*)
(*    DimensionValueAttributes |-> <<[Value |-> id, description |-> str]>>]*)
(* where Amount stands for group['Metrics'][cost_aggregation]['Amount'].   *)
(***************************************************************************)
find_by_key(values, value) ==
    LET hits == {i \in 1..Len(values) : values[i].Value = value}
    IN  IF hits = {} THEN None
        ELSE values[CHOOSE i \in hits : \A j \in hits : i <= j]

\* the dict key of a group: the account id, annotated with its description
Label(attrs, id) ==
    LET dimension == find_by_key(attrs, id)
    IN  IF dimension /= None THEN id \o " (" \o dimension.description \o ")" ELSE id

\* the inner loop: for group in month['Groups']
RECURSIVE AddGroups(_, _, _, _)
AddGroups(d, groups, attrs, g) ==
    IF g > Len(groups) THEN d
    ELSE AddGroups(DictAppend(d, Label(attrs, groups[g].Keys[1]),
                              ParseAmount(groups[g].Amount)),
                   groups, attrs, g + 1)

\* if month_count > 1: continue
SkipMonthTooMany(month_count) == month_count > 2

SkipMonth(month_count) == month_count > 1

\* for month in reversed(ResultsByTime), from bucket i down, with the skip
RECURSIVE MonthLoop(_, _, _, _)
MonthLoop(data, i, month_count, d) ==
    IF i = 0 THEN d
    ELSE IF SkipMonth(month_count) THEN MonthLoop(data, i - 1, month_count, d)
    ELSE MonthLoop(data, i - 1, month_count + 1,
                   AddGroups(d, data.ResultsByTime[i].Groups,
                             data.DimensionValueAttributes, 1))

MonthlyDict(data) == MonthLoop(data, Len(data.ResultsByTime), 0, <<>>)

\* for month in reversed(ResultsByTime), every bucket
RECURSIVE DayLoop(_, _, _)
DayLoop(data, i, d) ==
    IF i = 0 THEN d
    ELSE DayLoop(data, i - 1,
                 AddGroups(d, data.ResultsByTime[i].Groups,
                           data.DimensionValueAttributes, 1))

DailyDict(data) == DayLoop(data, Len(data.ResultsByTime), <<>>)

(***************************************************************************)
(* report_cost: partition, sort, callouts and rendering.                   *)
(***************************************************************************)
IsPersonal(key) == Contains("personal-", key)

\* the loop at "Split out personal and other accounts": the items of d, from
\* item i on, that go to the personal dict (personal) or to the other one
RECURSIVE Split(_, _, _)
Split(d, personal, i) ==
    IF i > Len(d) THEN <<>>
    ELSE (IF IsPersonal(d[i].k) = personal THEN <<d[i]>> ELSE <<>>)
             \o Split(d, personal, i + 1)

\* one step of a stable descending insertion by the first cost
RECURSIVE InsertDesc(_, _)
InsertDesc(sorted, item) ==
    IF sorted = <<>> THEN <<item>>
    ELSE IF Head(sorted).v[1] >= item.v[1]
         THEN <<Head(sorted)>> \o InsertDesc(Tail(sorted), item)
         ELSE <<item>> \o sorted

\* sorted(items, key=lambda i: i[1][0], reverse=True): stable
RECURSIVE SortedDesc(_, _)
SortedDesc(items, n) ==
    IF n = 0 THEN <<>> ELSE InsertDesc(SortedDesc(items, n - 1), items[n])

most_expensive(items) == SortedDesc(items, Len(items))

\* len(max(keys, key=len)) of a non-empty dict
longest_name_len(d) ==
    CHOOSE n \in {Len(d[i].k) : i \in 1..Len(d)} : \A i \in 1..Len(d) : Len(d[i].k) <= n

\* if costs[0] > 400
IsCalloutAtFloor(costs) == costs[1] > Dollars(20)

IsCallout(costs) == costs[1] > Dollars(400)

\* callout_users.append(name[23:-1]) for every personal item over the threshold
RECURSIVE Callouts(_, _)
Callouts(items, i) ==
    IF i > Len(items) THEN <<>>
    ELSE (IF IsCallout(items[i].v) THEN <<SliceToLast(items[i].k, 23)>> ELSE <<>>)
             \o Callouts(items, i + 1)

\* last_month_cost = (costs[1] if len(costs) > 1 else 0)
LastMonthCost(costs) == IF Len(costs) > 1 THEN costs[2] ELSE 0

\* if costs[0] > cost_floor or last_month_cost > cost_floor
QualifiesMonthToDateOnly(costs, cost_floor) == costs[1] > Dollars(cost_floor)

Qualifies(costs, cost_floor) ==
    costs[1] > Dollars(cost_floor) \/ LastMonthCost(costs) > Dollars(cost_floor)

\* cost_per_day_dict.get(name, [0])[0]
YesterdayCostNoDefault(day_dict, name, costs) ==
    IF name \in DictKeys(day_dict) THEN DictGet(day_dict, name)[1] ELSE costs[1]

YesterdayCost(day_dict, name, costs) ==
    IF name \in DictKeys(day_dict) THEN DictGet(day_dict, name)[1] ELSE 0

HeaderLine(w) ==
    Center("AWS Accounts", w) \o " | Month-to-date | yesterday | "
        \o RJust("Last month", 5)

DataLine(name, costs, day_dict, w) ==
    LJust(name, w) \o " | " \o RJust(Fmt2f(costs[1], TRUE), 12) \o "$ | "
        \o RJust(Fmt2f(YesterdayCost(day_dict, name, costs), TRUE), 8) \o "$ | "
        \o Fmt2f(LastMonthCost(costs), FALSE) \o "$"

OtherLine(other_costs, w) ==
    LJust("Other", w) \o " | " \o RJust(Fmt2f(other_costs[1], TRUE), 12)
        \o "$ |           | " \o Fmt2f(other_costs[2], FALSE) \o "$"

\* for i, cost in enumerate(costs): other_costs[i] += cost   (len(costs) <= 2)
AddCostsOverwrite(other_costs, costs) ==
    [i \in 1..2 |-> IF i <= Len(costs) THEN costs[i] ELSE other_costs[i]]

AddCosts(other_costs, costs) ==
    [i \in 1..2 |-> other_costs[i] + (IF i <= Len(costs) THEN costs[i] ELSE 0)]

\* the data lines of a buffer, from item i on
RECURSIVE DataLines(_, _, _, _, _)
DataLines(items, day_dict, w, cost_floor, i) ==
    IF i > Len(items) THEN <<>>
    ELSE (IF Qualifies(items[i].v, cost_floor)
          THEN <<DataLine(items[i].k, items[i].v, day_dict, w)>> ELSE <<>>)
             \o DataLines(items, day_dict, w, cost_floor, i + 1)

\* other_costs after the loop, from item i on
RECURSIVE OtherCosts(_, _, _, _)
OtherCosts(items, cost_floor, i, other_costs) ==
    IF i > Len(items) THEN other_costs
    ELSE OtherCosts(items, cost_floor, i + 1,
                    IF Qualifies(items[i].v, cost_floor) THEN other_costs
                    ELSE AddCosts(other_costs, items[i].v))

\* one rendered buffer: header, data lines, Other line
Buffer(items, day_dict, w, cost_floor) ==
    <<HeaderLine(w)>> \o DataLines(items, day_dict, w, cost_floor, 1)
        \o <<OtherLine(OtherCosts(items, cost_floor, 1, <<0, 0>>), w)>>

\* other_costs[i] += cost with i >= 2 raises IndexError
AccumulateRaises(items, cost_floor) ==
    \E i \in 1..Len(items) : ~Qualifies(items[i].v, cost_floor) /\ Len(items[i].v) > 2

personal_most_expensive(month_dict) == most_expensive(Split(month_dict, TRUE, 1))

other_most_expensive(month_dict) == most_expensive(Split(month_dict, FALSE, 1))

(***************************************************************************)
(* publish_slack: the texts and the log message.                           *)
(***************************************************************************)
\* the line of three backquote characters that fences the main text
Fence == "<fence>"

MainText(personal, other) ==
    <<Fence, "Personal Accounts", "">> \o personal
        \o <<"", "", "Other Accounts", "">> \o other \o <<"", Fence>>

Mention(user) == "<@" \o user \o ">"

\* " ".join("<@" + user + ">" for user in callout_users)
RECURSIVE JoinMentions(_, _)
JoinMentions(users, i) ==
    IF i > Len(users) THEN ""
    ELSE Mention(users[i]) \o (IF i < Len(users) THEN " " ELSE "")
             \o JoinMentions(users, i + 1)

CalloutText(users) == <<"Expensive People: " \o JoinMentions(users, 1)>>

\* "HTTP %s: %s" % (resp.status_code, resp.text)
WarningMessage(resp) == "HTTP " \o IntStr(resp.status_code) \o ": " \o resp.text

\* if resp.status_code != 200
ShouldWarnNever(resp) == FALSE

ShouldWarn(resp) == resp.status_code /= 200

\* if callout_users and datetime.now().isoweekday() == 2: the weekday test
IsCalloutDayAlways(wd) == TRUE

IsCalloutDay(wd) == wd = 2

(***************************************************************************)
(* The inputs of the model: what the billing API and the webhook answer.   *)
(***************************************************************************)
\* the linked accounts, in the order a bucket lists its groups
AccountIds == <<"111111111111", "222222222222", "333333333333">>

\* the descriptions the API knows; the third account has none
Attributes ==
    <<[Value |-> AccountIds[1], description |-> "personal-alice"],
      [Value |-> AccountIds[2], description |-> "personal-bob"]>>

Absent == "absent"

\* the groups of a bucket in which account ids[i] costs amount[ids[i]], if any
RECURSIVE GroupsOf(_, _, _)
GroupsOf(amount, ids, i) ==
    IF i > Len(ids) THEN <<>>
    ELSE (IF amount[ids[i]] = Absent THEN <<>>
          ELSE <<[Keys |-> <<ids[i]>>, Amount |-> amount[ids[i]]]>>)
             \o GroupsOf(amount, ids, i + 1)

\* every bucket over the accounts ids with amounts from amounts
Buckets(ids, amounts) ==
    {[Groups |-> GroupsOf(amount, ids, 1)] :
        amount \in [{ids[i] : i \in 1..Len(ids)} -> amounts \cup {Absent}]}

\* every response of at most maxlen buckets
Responses(buckets, maxlen) ==
    {[ResultsByTime |-> results, DimensionValueAttributes |-> Attributes] :
        results \in UNION {[1..n -> buckets] : n \in 0..maxlen}}

\* the daily responses of the publishing and the rendering runs
ReportDaily == Responses(Buckets(SubSeq(AccountIds, 1, 1), {"7.5"}), MaxReportDays)

\* publishing runs: costs just above the cost floor, at the callout threshold
\* and just above it
FlowMonthly ==
    Responses(Buckets(AccountIds, {"20.01", "400", "400.01"}), MaxFlowMonths)

\* rendering runs: costs at the cost floor and just above it
ReportMonthly == Responses(Buckets(AccountIds, {"20", "20.01"}), MaxReportMonths)

\* aggregation runs: longer responses, one account with a description and
\* one without
AggMonthly == Responses(Buckets(SubSeq(AccountIds, 2, 3), {"20", "400.01"}), MaxMonths)

AggDaily == Responses(Buckets(SubSeq(AccountIds, 2, 2), {"7.5"}), MaxDays)

\* sparkline inputs: non-empty sequences of non-negative numbers
SparkInputs == UNION {[1..n -> 0..MaxDp] : n \in 1..MaxLen}

WebhookResponses ==
    {[status_code |-> 200, text |-> "ok"],
     [status_code |-> 500, text |-> "no_service"]}

HookUrl == "https://hooks.example/services/T0/B0"

IsoWeekdays == 1..7

(***************************************************************************)
(* The state machine.                                                      *)
(***************************************************************************)
InitHandler ==
    /\ error = "none"
    /\ monthly_cost_and_usage_data = None
    /\ daily_cost_and_usage_data = None
    /\ cost_per_month_dict = <<>>
    /\ cost_per_day_dict = <<>>
    /\ personal_buffer = <<>>
    /\ other_buffer = <<>>
    /\ callout_users = <<>>
    /\ slack_hook_url = ""
    /\ weekday = 0
    /\ posts = <<>>
    /\ warnings = <<>>

Init ==
    /\ pc = "start"
    /\ InitHandler
    /\ datapoints = <<>>
    /\ line = <<>>

\* client.get_cost_and_usage(Granularity="MONTHLY") returns
QueryMonthly(responses) ==
    /\ pc = "start"
    /\ \E r \in responses : monthly_cost_and_usage_data' = r
    /\ pc' = "monthly_done"
    /\ UNCHANGED <<error, daily_cost_and_usage_data, cost_per_month_dict,
                   cost_per_day_dict, personal_buffer, other_buffer, callout_users,
                   slack_hook_url, weekday, posts, warnings, datapoints, line>>

\* client.get_cost_and_usage(Granularity="MONTHLY") raises
QueryMonthlyFail ==
    /\ pc = "start"
    /\ pc' = "failed"
    /\ error' = "ClientError"
    /\ UNCHANGED <<monthly_cost_and_usage_data, daily_cost_and_usage_data,
                   cost_per_month_dict, cost_per_day_dict, personal_buffer,
                   other_buffer, callout_users, slack_hook_url, weekday, posts,
                   warnings, datapoints, line>>

\* client.get_cost_and_usage(Granularity="DAILY") returns
QueryDaily(responses) ==
    /\ pc = "monthly_done"
    /\ \E r \in responses : daily_cost_and_usage_data' = r
    /\ pc' = "daily_done"
    /\ UNCHANGED <<error, monthly_cost_and_usage_data, cost_per_month_dict,
                   cost_per_day_dict, personal_buffer, other_buffer, callout_users,
                   slack_hook_url, weekday, posts, warnings, datapoints, line>>

\* client.get_cost_and_usage(Granularity="DAILY") raises
QueryDailyFailIgnored ==
    /\ pc = "monthly_done"
    /\ pc' = "daily_done"
    /\ error' = "ClientError"
    /\ daily_cost_and_usage_data' =
           [ResultsByTime |-> <<>>, DimensionValueAttributes |-> <<>>]
    /\ UNCHANGED <<monthly_cost_and_usage_data, cost_per_month_dict,
                   cost_per_day_dict, personal_buffer, other_buffer, callout_users,
                   slack_hook_url, weekday, posts, warnings, datapoints, line>>

QueryDailyFail ==
    /\ pc = "monthly_done"
    /\ pc' = "failed"
    /\ error' = "ClientError"
    /\ UNCHANGED <<monthly_cost_and_usage_data, daily_cost_and_usage_data,
                   cost_per_month_dict, cost_per_day_dict, personal_buffer,
                   other_buffer, callout_users, slack_hook_url, weekday, posts,
                   warnings, datapoints, line>>

\* the rest of report_cost raises: max() of no keys, or other_costs[2]
RenderRaises(month_dict, cost_floor) ==
    \/ month_dict = <<>>
    \/ AccumulateRaises(personal_most_expensive(month_dict), cost_floor)
    \/ AccumulateRaises(other_most_expensive(month_dict), cost_floor)

\* report_cost after the two queries: the dicts, the buffers, the callouts
ReportCost(cost_floor) ==
    /\ pc = "daily_done"
    /\ LET month_dict == MonthlyDict(monthly_cost_and_usage_data)
           day_dict == DailyDict(daily_cost_and_usage_data)
       IN  /\ cost_per_month_dict' = month_dict
           /\ cost_per_day_dict' = day_dict
           /\ IF RenderRaises(month_dict, cost_floor)
              THEN /\ pc' = "failed"
                   /\ error' = IF month_dict = <<>> THEN "ValueError" ELSE "IndexError"
                   /\ UNCHANGED <<personal_buffer, other_buffer, callout_users>>
              ELSE LET w == longest_name_len(month_dict)
                       personal == personal_most_expensive(month_dict)
                       other == other_most_expensive(month_dict)
                   IN  /\ callout_users' = Callouts(personal, 1)
                       /\ personal_buffer' = Buffer(personal, day_dict, w, cost_floor)
                       /\ other_buffer' = Buffer(other, day_dict, w, cost_floor)
                       /\ pc' = "reported"
                       /\ UNCHANGED error
    /\ UNCHANGED <<monthly_cost_and_usage_data, daily_cost_and_usage_data,
                   slack_hook_url, weekday, posts, warnings, datapoints, line>>

\* lambda_handler: SLACK_WEBHOOK_URL is not set, nothing is published
NoWebhook ==
    /\ pc = "reported"
    /\ slack_hook_url' = ""
    /\ pc' = "done"
    /\ UNCHANGED <<error, monthly_cost_and_usage_data, daily_cost_and_usage_data,
                   cost_per_month_dict, cost_per_day_dict, personal_buffer,
                   other_buffer, callout_users, weekday, posts, warnings,
                   datapoints, line>>

\* what a returned requests.post leaves behind: the post, and a warning if due
Posted(text, resp) ==
    /\ posts' = Append(posts, [text |-> text, status_code |-> resp.status_code,
                               body |-> resp.text])
    /\ warnings' = IF ShouldWarn(resp) THEN Append(warnings, WarningMessage(resp))
                   ELSE warnings

\* publish_slack: the main post returns
PublishMain ==
    /\ pc = "reported"
    /\ slack_hook_url' = HookUrl
    /\ \E resp \in WebhookResponses : Posted(MainText(personal_buffer, other_buffer), resp)
    /\ pc' = "main_posted"
    /\ UNCHANGED <<error, monthly_cost_and_usage_data, daily_cost_and_usage_data,
                   cost_per_month_dict, cost_per_day_dict, personal_buffer,
                   other_buffer, callout_users, weekday, datapoints, line>>

\* publish_slack: the main post raises (no connection)
PublishMainRaise ==
    /\ pc = "reported"
    /\ slack_hook_url' = HookUrl
    /\ pc' = "failed"
    /\ error' = "ConnectionError"
    /\ UNCHANGED <<monthly_cost_and_usage_data, daily_cost_and_usage_data,
                   cost_per_month_dict, cost_per_day_dict, personal_buffer,
                   other_buffer, callout_users, weekday, posts, warnings,
                   datapoints, line>>

\* publish_slack: the callout list is empty, the weekday is not looked at
NoCallouts ==
    /\ pc = "main_posted"
    /\ callout_users = <<>>
    /\ pc' = "done"
    /\ UNCHANGED <<error, monthly_cost_and_usage_data, daily_cost_and_usage_data,
                   cost_per_month_dict, cost_per_day_dict, personal_buffer,
                   other_buffer, callout_users, slack_hook_url, weekday, posts,
                   warnings, datapoints, line>>

\* publish_slack: there are callouts but it is not the day for them
NotCalloutDay ==
    /\ pc = "main_posted"
    /\ callout_users /= <<>>
    /\ \E wd \in IsoWeekdays : ~IsCalloutDay(wd) /\ weekday' = wd
    /\ pc' = "done"
    /\ UNCHANGED <<error, monthly_cost_and_usage_data, daily_cost_and_usage_data,
                   cost_per_month_dict, cost_per_day_dict, personal_buffer,
                   other_buffer, callout_users, slack_hook_url, posts, warnings,
                   datapoints, line>>

\* publish_slack: the callout post returns
PublishCallout ==
    /\ pc = "main_posted"
    /\ callout_users /= <<>>
    /\ \E wd \in IsoWeekdays : IsCalloutDay(wd) /\ weekday' = wd
    /\ \E resp \in WebhookResponses : Posted(CalloutText(callout_users), resp)
    /\ pc' = "done"
    /\ UNCHANGED <<error, monthly_cost_and_usage_data, daily_cost_and_usage_data,
                   cost_per_month_dict, cost_per_day_dict, personal_buffer,
                   other_buffer, callout_users, slack_hook_url, datapoints, line>>

\* publish_slack: the callout post raises (no connection)
PublishCalloutRaise ==
    /\ pc = "main_posted"
    /\ callout_users /= <<>>
    /\ \E wd \in IsoWeekdays : IsCalloutDay(wd) /\ weekday' = wd
    /\ pc' = "failed"
    /\ error' = "ConnectionError"
    /\ UNCHANGED <<monthly_cost_and_usage_data, daily_cost_and_usage_data,
                   cost_per_month_dict, cost_per_day_dict, personal_buffer,
                   other_buffer, callout_users, slack_hook_url, posts, warnings,
                   datapoints, line>>

\* line = sparkline(datapoints)
Sparkline ==
    /\ pc = "spark_start"
    /\ line' = sparkline(datapoints)
    /\ pc' = "spark_done"
    /\ UNCHANGED <<error, monthly_cost_and_usage_data, daily_cost_and_usage_data,
                   cost_per_month_dict, cost_per_day_dict, personal_buffer,
                   other_buffer, callout_users, slack_hook_url, weekday, posts,
                   warnings, datapoints>>

(***************************************************************************)
(* Spec: one invocation of lambda_handler with SLACK_WEBHOOK_URL set or    *)
(* not; lambda_handler calls report_cost(cost_floor=20, ...).              *)
(***************************************************************************)
Next ==
    \/ QueryMonthly(FlowMonthly)
    \/ QueryMonthlyFail
    \/ QueryDaily(ReportDaily)
    \/ QueryDailyFail
    \/ ReportCost(20)
    \/ NoWebhook
    \/ PublishMain
    \/ PublishMainRaise
    \/ NoCallouts
    \/ NotCalloutDay
    \/ PublishCallout
    \/ PublishCalloutRaise

Spec == Init /\ [][Next]_vars

(***************************************************************************)
(* SpecReport, SpecAgg: one invocation without SLACK_WEBHOOK_URL, over     *)
(* the rendering and the aggregation inputs.                               *)
(***************************************************************************)
NextReport ==
    \/ QueryMonthly(ReportMonthly)
    \/ QueryMonthlyFail
    \/ QueryDaily(ReportDaily)
    \/ QueryDailyFail
    \/ ReportCost(20)
    \/ NoWebhook

SpecReport == Init /\ [][NextReport]_vars

NextAgg ==
    \/ QueryMonthly(AggMonthly)
    \/ QueryMonthlyFail
    \/ QueryDaily(AggDaily)
    \/ QueryDailyFail
    \/ ReportCost(20)
    \/ NoWebhook

SpecAgg == Init /\ [][NextAgg]_vars

(***************************************************************************)
(* SpecSpark: one call of sparkline on any input of the bounds.            *)
(***************************************************************************)
InitSpark ==
    /\ pc = "spark_start"
    /\ InitHandler
    /\ datapoints \in SparkInputs
    /\ line = <<>>

NextSpark == Sparkline

SpecSpark == InitSpark /\ [][NextSpark]_vars

(***************************************************************************)
(* Vocabulary of the properties, stated on the responses and the dicts     *)
(* without the operators of report_cost.                                   *)
(***************************************************************************)
\* report_cost has built both dicts (it may have raised afterwards)
Aggregated ==
    daily_cost_and_usage_data /= None /\ pc /= "daily_done"

\* report_cost has returned the buffers
Rendered == Aggregated /\ error /= "ValueError" /\ error /= "IndexError"

MonthItems == {cost_per_month_dict[i] : i \in 1..Len(cost_per_month_dict)}

DayKeys == {cost_per_day_dict[i].k : i \in 1..Len(cost_per_day_dict)}

PersonalKey(key) ==
    \E i \in 1..Len(key) : i + 8 <= Len(key) /\ SubSeq(key, i, i + 8) = "personal-"

\* the account id a dict key starts with
IdOf(key) == SubSeq(key, 1, 12)

\* the cost of account id in a bucket, in cents: 0 when the bucket has no group for it
CostIn(bucket, id) ==
    LET gs == {g \in 1..Len(bucket.Groups) : bucket.Groups[g].Keys[1] = id}
    IN  IF gs = {} THEN 0
        ELSE ParseAmount(bucket.Groups[CHOOSE g \in gs : TRUE].Amount)

HasGroup(bucket, id) ==
    \E g \in 1..Len(bucket.Groups) : bucket.Groups[g].Keys[1] = id

\* the costs of account id in the buckets at the positions ixs (most recent
\* first), skipping the buckets that have no group for it
RECURSIVE CostsAt(_, _, _, _)
CostsAt(results, ixs, id, j) ==
    IF j > Len(ixs) THEN <<>>
    ELSE (IF HasGroup(results[ixs[j]], id) THEN <<CostIn(results[ixs[j]], id)>>
          ELSE <<>>) \o CostsAt(results, ixs, id, j + 1)

\* the positions of the two most recent buckets of a response, most recent first
LastTwo(results) ==
    IF Len(results) = 0 THEN <<>>
    ELSE IF Len(results) = 1 THEN <<1>>
    ELSE <<Len(results), Len(results) - 1>>

MonthToDate(item) == item.v[1]

LastMonth(item) == IF Len(item.v) >= 2 THEN item.v[2] ELSE 0

ClearsFloor(item) == MonthToDate(item) > 2000 \/ LastMonth(item) > 2000

RECURSIVE SumMonthToDate(_)
SumMonthToDate(items) ==
    IF items = {} THEN 0
    ELSE LET it == CHOOSE x \in items : TRUE
         IN  MonthToDate(it) + SumMonthToDate(items \ {it})

RECURSIVE SumLastMonth(_)
SumLastMonth(items) ==
    IF items = {} THEN 0
    ELSE LET it == CHOOSE x \in items : TRUE
         IN  LastMonth(it) + SumLastMonth(items \ {it})

Width == longest_name_len(cost_per_month_dict)

\* the positions of the lines of a buffer that start with the label of name
RowsOf(buffer, name) ==
    {i \in 2..(Len(buffer) - 1) :
        SubSeq(buffer[i], 1, Width + 3) = name \o Spaces(Width - Len(name)) \o " | "}

\* the "yesterday" cell of a data line: 8 characters and the "$"
YesterdayCell(row) == SubSeq(row, Width + 20, Width + 28)

PartitionOf(item) == IF PersonalKey(item.k) THEN "personal" ELSE "other"

BufferOf(part) == IF part = "personal" THEN personal_buffer ELSE other_buffer

\* the accounts of a partition that the cost floor keeps out of the data lines
Excluded(part) == {it \in MonthItems : PartitionOf(it) = part /\ ~ClearsFloor(it)}

\* the Other line whose two values are the sums over the excluded accounts
ExpectedOtherLine(part) ==
    "Other" \o Spaces(Width - 5) \o " | "
        \o RJust(Fmt2f(SumMonthToDate(Excluded(part)), TRUE), 12)
        \o "$ |           | " \o Fmt2f(SumLastMonth(Excluded(part)), FALSE) \o "$"

\* the warnings that the non-200 posts among ps call for, in order
RECURSIVE WarningsFor(_, _)
WarningsFor(ps, i) ==
    IF i > Len(ps) THEN <<>>
    ELSE (IF ps[i].status_code /= 200
          THEN <<"HTTP " \o IntStr(ps[i].status_code) \o ": " \o ps[i].body>>
          ELSE <<>>) \o WarningsFor(ps, i + 1)

\* the personal accounts whose most-recent-month cost exceeds 400
OverThreshold == {it \in MonthItems : PersonalKey(it.k) /\ MonthToDate(it) > 40000}

(***************************************************************************)
(* The properties.                                                         *)
(***************************************************************************)
\* C1: no webhook post is made before both billing queries, the monthly one
\* first and then the daily one, have returned; when a billing query fails
\* the invocation aborts and has made no webhook post.
C1_BillingBeforeWebhook ==
    /\ daily_cost_and_usage_data /= None => monthly_cost_and_usage_data /= None
    /\ posts /= <<>> =>
          monthly_cost_and_usage_data /= None /\ daily_cost_and_usage_data /= None
    /\ error = "ClientError" => pc = "failed" /\ posts = <<>>

\* C1 witness: the daily query failed after the monthly one had returned.
C1_Witness ==
    /\ pc = "failed"
    /\ error = "ClientError"
    /\ monthly_cost_and_usage_data /= None
    /\ Len(monthly_cost_and_usage_data.ResultsByTime) > 0

\* C2: when publish_slack has completed, it has made two posts if today is
\* ISO weekday 2 and the callout list is non-empty, and exactly one post in
\* every other case; the first post is the main report and the second, if
\* any, the callout message, whatever status the main post returned.
C2_CalloutOnlyOnTuesday ==
    /\ Len(posts) <= 2
    /\ Len(posts) = 2 => weekday = 2 /\ callout_users /= <<>>
    /\ (pc = "done" /\ slack_hook_url /= "") =>
          /\ Len(posts) = (IF callout_users /= <<>> /\ weekday = 2 THEN 2 ELSE 1)
          /\ posts[1].text[2] = "Personal Accounts"
          /\ Len(posts) = 2 =>
                SubSeq(posts[2].text[1], 1, 18) = "Expensive People: "

\* C2 witness: the callout message was posted after a main post that
\* returned a status other than 200.
C2_Witness ==
    /\ pc = "done"
    /\ Len(posts) = 2
    /\ posts[1].status_code /= 200
    /\ weekday = 2

\* C3: a post that returns a status other than 200 does not raise: the
\* invocation goes on, exactly one warning holding the status code and the
\* response body is logged for it, and no post is made twice.
C3_Non200LoggedNotRaised ==
    /\ [](/\ warnings = WarningsFor(posts, 1)
          /\ \A i, j \in 1..Len(posts) : i /= j => posts[i].text /= posts[j].text)
    /\ [][(Len(posts') = Len(posts) + 1 /\ posts'[Len(posts')].status_code /= 200)
            => /\ pc' \in {"main_posted", "done"}
               /\ error' = "none"
               /\ Len(warnings') = Len(warnings) + 1]_vars

\* C3 witness: both posts returned a status other than 200 and the run completed.
C3_Witness ==
    /\ pc = "done"
    /\ Len(posts) = 2
    /\ posts[1].status_code /= 200
    /\ posts[2].status_code /= 200
    /\ Len(warnings) = 2

\* C4: in each rendered buffer the Other line shows, as month-to-date value,
\* the sum of the month-to-date values of the accounts of that buffer that
\* the cost floor excluded from the data lines and, as last-month value,
\* the sum of their last-month values.
C4_OtherRowSums ==
    Rendered =>
        \A part \in {"personal", "other"} :
            BufferOf(part)[Len(BufferOf(part))] = ExpectedOtherLine(part)

\* C4 witness: two accounts of one buffer are excluded, both with a
\* last-month value, and an account of the other buffer is excluded too.
C4_Witness ==
    /\ Rendered
    /\ \E a, b \in Excluded("personal") : a /= b /\ Len(a.v) = 2 /\ Len(b.v) = 2
    /\ Excluded("other") /= {}

\* C5: every series of the monthly map has at most two entries and holds
\* exactly the amounts of its account in the two most recent buckets of the
\* response, most recent first, however many buckets the response has.
C5_TwoMostRecentMonths ==
    Aggregated =>
        LET results == monthly_cost_and_usage_data.ResultsByTime
        IN  \A it \in MonthItems :
               /\ Len(it.v) <= 2
               /\ it.v = CostsAt(results, LastTwo(results), IdOf(it.k), 1)

\* C5 witness: a response of more than two buckets whose oldest bucket has
\* a group for an account that is also in the map.
C5_Witness ==
    /\ Aggregated
    /\ Len(monthly_cost_and_usage_data.ResultsByTime) > 2
    /\ \E it \in MonthItems :
          /\ HasGroup(monthly_cost_and_usage_data.ResultsByTime[1], IdOf(it.k))
          /\ Len(it.v) = 2

\* C6: for a non-empty input whose maximum is 0, sparkline maps every value
\* to the lowest of the 7 glyphs.
C6_AllZeroLowestGlyph ==
    (pc = "spark_done" /\ \A i \in 1..Len(datapoints) : datapoints[i] = 0) =>
        \A i \in 1..Len(line) : line[i] = "U+2581"

\* C7: an account of the monthly map that is absent from the daily map and
\* clears the cost floor is rendered, without an error, in one data line
\* whose "yesterday" cell shows zero.
C7_MissingDailyIsZero ==
    Aggregated =>
        \A it \in MonthItems :
            (it.k \notin DayKeys /\ ClearsFloor(it)) =>
                /\ Rendered
                /\ \E i \in RowsOf(BufferOf(PartitionOf(it)), it.k) :
                      YesterdayCell(BufferOf(PartitionOf(it))[i]) = "    0.00$"

\* C7 witness: one account has a daily cost, another one that clears the
\* floor has none.
C7_Witness ==
    /\ Rendered
    /\ \E it \in MonthItems : it.k \in DayKeys /\ ClearsFloor(it)
    /\ \E it \in MonthItems :
          it.k \notin DayKeys /\ ClearsFloor(it) /\ PartitionOf(it) = "personal"

C9_IndexIsBucket ==
    Rendered =>
        LET months == monthly_cost_and_usage_data.ResultsByTime
            days == daily_cost_and_usage_data.ResultsByTime
        IN  /\ \A it \in MonthItems :
                  /\ it.v[1] = CostIn(months[Len(months)], IdOf(it.k))
                  /\ Len(it.v) > 1 => it.v[2] = CostIn(months[Len(months) - 1], IdOf(it.k))
            /\ \A i \in 1..Len(cost_per_day_dict) :
                  cost_per_day_dict[i].v[1]
                      = CostIn(days[Len(days)], IdOf(cost_per_day_dict[i].k))

\* C10: every account of the monthly map is in exactly one partition; it
\* has one data line in the buffer of its partition if its month-to-date
\* or its last-month cost (0 for a series of one entry) is above 20, and is
\* otherwise part of the Other totals of that buffer; it has no line in
\* the other buffer.
C10_RowIffAboveFloor ==
    Rendered =>
        /\ \A it \in MonthItems :
              /\ Cardinality(RowsOf(BufferOf(PartitionOf(it)), it.k))
                    = (IF ClearsFloor(it) THEN 1 ELSE 0)
              /\ \A part \in {"personal", "other"} \ {PartitionOf(it)} :
                    RowsOf(BufferOf(part), it.k) = {}
        /\ \A part \in {"personal", "other"} :
              /\ Len(BufferOf(part)) - 2
                    = Cardinality({it \in MonthItems :
                                      PartitionOf(it) = part /\ ClearsFloor(it)})
              /\ SubSeq(BufferOf(part)[Len(BufferOf(part))], 1, Width + 16)
                    = SubSeq(ExpectedOtherLine(part), 1, Width + 16)

\* C10 witness: an account gets its line through its last-month cost alone,
\* another account of the same buffer is excluded, and both buffers have
\* accounts.
C10_Witness ==
    /\ Rendered
    /\ \E a, b \in MonthItems :
          /\ PartitionOf(a) = PartitionOf(b)
          /\ MonthToDate(a) <= 2000 /\ LastMonth(a) > 2000
          /\ ~ClearsFloor(b)
    /\ \E a, b \in MonthItems : PartitionOf(a) /= PartitionOf(b)

====
